---- MODULE Spec2Model ----
(***************************************************************************)
(* Verification model of trompj/adventure_game.                            *)
(*                                                                         *)
(*   trompj.buildrooms.c  - the Graph Builder: random 7-room graph,        *)
(*                          room names, room types, room files.            *)
(*   trompj.adventure.c   - the Adventure Runner: run loop and the         *)
(*                          time subsystem (worker thread + mutex).        *)
(*                                                                         *)
(* The specifications of the module:                                       *)
(*   SpecBuild  - main's generation loop of trompj.buildrooms.c            *)
(*   FairBuild  - SpecBuild with the loop scheduled fairly                 *)
(*   SpecRoles  - setupRoomFiles of trompj.buildrooms.c                    *)
(*   SpecGame   - runGameDriver / timeProcessing of trompj.adventure.c     *)
(*   FairGame   - the game of one role assignment, threads scheduled      *)
(*                fairly                                                   *)
(*   SpecFile   - one room file written by setupRoomFiles, parsed by       *)
(*                readFile                                                 *)
(*   SpecDir    - mostRecentRooms of trompj.adventure.c                    *)
(*   SpecSelect - selectRooms of trompj.buildrooms.c                       *)
(***************************************************************************)
EXTENDS Integers, FiniteSets, Sequences, TLC

VARIABLES
    roomGraph,      \* int roomGraph[7][7] of main (buildrooms)
    bpc,            \* position of main (buildrooms): "gen", "done", "stuck"
    roomTypes,      \* int roomTypes[7] of setupRoomFiles
    fileNum,        \* loop index of setupRoomFiles
    fileType,       \* per room file: the ROOM TYPE written to it, or NoFile
    spc,            \* position of setupRoomFiles: "open", "type", "done", "crashed"
    roomArr,        \* struct room roomArr[7] of main (adventure)
    currentRoom,    \* index in roomArr of runGameDriver's currentRoom
    stepCount,      \* int stepCount of runGameDriver
    visitedRooms,   \* char** visitedRooms: the names visited, oldest first
    userInputRoom,  \* char userInputRoom[10]: the last command read
    printed,        \* what the last iteration printed after reading the command
    display,        \* what the last iteration printed before the prompt
    gpc,            \* position of the main thread in runGameDriver / timeProcessing
    lock,           \* owner of threadInfo.lock: Unlocked, MainThread or a worker
    wpc,            \* position of each worker in writeTimeFileThread
    requests,       \* number of pthread_create calls made so far
    timeFile,       \* content of currentTime.txt
    handles,        \* threads holding an open FILE* on currentTime.txt
    timeString,     \* per worker: char timeString[256] once strftime has filled it
    lineRead,       \* char lineRead[80] of readTimeFile as last printed
    selectedRooms,  \* char* selectedRooms[7] of main (buildrooms)
    fileText,       \* content of the room file of room fileNum
    roomObj,        \* struct room roomObj of readFile
    fpc,            \* position of the write / read of one room file
    dirEntries,     \* what readdir returns for ".", in scan order, with st_mtime
    scanned,        \* number of entries readdir has returned so far
    newestModified, \* int newestModified of mostRecentRooms
    dirName,        \* char dirName[128] of main (adventure)
    mpc,            \* position of mostRecentRooms
    chosenRooms,    \* int chosenRooms[7] of selectRooms
    selIdx,         \* loop index i of selectRooms
    selpc           \* position of selectRooms: "idle", "draw", "done"

buildVars == <<roomGraph, bpc>>
roleVars == <<roomTypes, fileNum, fileType, spc>>
loopVars == <<roomArr, currentRoom, stepCount, visitedRooms, userInputRoom, printed, display>>
timeVars == <<lock, wpc, requests, timeFile, handles, timeString, lineRead>>
fileVars == <<selectedRooms, fileText, roomObj, fpc>>
dirVars == <<dirEntries, scanned, newestModified, dirName, mpc>>
selVars == <<chosenRooms, selIdx, selpc>>
pureVars == <<selectedRooms, fileText, roomObj, fpc,
              dirEntries, scanned, newestModified, dirName, mpc,
              chosenRooms, selIdx, selpc>>
gameVars == <<roomArr, currentRoom, stepCount, visitedRooms, userInputRoom, printed, display, gpc,
              lock, wpc, requests, timeFile, handles, timeString, lineRead>>
vars == <<roomGraph, bpc, roomTypes, fileNum, fileType, spc,
          roomArr, currentRoom, stepCount, visitedRooms, userInputRoom, printed, display, gpc,
          lock, wpc, requests, timeFile, handles, timeString, lineRead,
          selectedRooms, fileText, roomObj, fpc,
          dirEntries, scanned, newestModified, dirName, mpc,
          chosenRooms, selIdx, selpc>>

(***************************************************************************)
(* Program constants and bounds                                            *)
(***************************************************************************)
NumRooms == 7
MinConnections == 3
MaxConnections == 6

\* The draws (roomA, roomB) of rand() % 7 explored by the model are those
\* whose unordered pair is among the first MaxPairs pairs of rooms in
\* row-major order: (0,1) (0,2) .. (0,6) (1,2) .. (1,6) (2,3) ..
MaxPairs == 15

\* entries of the current directory explored per scan
MaxEntries == 3
\* the modification times explored: 0..MaxTime seconds since the epoch
MaxTime == 3

\* moves explored per run of the adventure
MaxSteps == 3
\* time requests explored per run of the adventure
MaxRequests == 2
\* the clock readings time(NULL) can return: 1..MaxClock
MaxClock == 2

Rooms == 0..(NumRooms - 1)
Unset == 0 - 1
NoFile == "none"
MainThread == 0
Workers == 1..MaxRequests
Unlocked == 0 - 1
Clock == 1..MaxClock
NewLine == 0
\* a char* that is NULL
Null == "<NULL>"
\* initializeData: every pointer of the struct room is NULL
initializeData == [roomName |-> Null, roomType |-> Null, roomConnections |-> <<>>]
\* nothing printed before the prompt
NoDisplay == [location |-> "", connections |-> <<>>]

\* nothing printed after the command
NoOutput == [msg |-> "", steps |-> 0, path |-> <<>>]

\* position of the pair {a, b}, a # b, in row-major order, from 0
PairIndex(a, b) ==
    LET lo == IF a < b THEN a ELSE b
        hi == IF a < b THEN b ELSE a
    IN lo * NumRooms - ((lo * (lo + 1)) \div 2) + (hi - lo - 1)

DrawExplored(roomA, roomB) == roomA = roomB \/ PairIndex(roomA, roomB) < MaxPairs

(***************************************************************************)
(* trompj.buildrooms.c : graph generation                                  *)
(***************************************************************************)
initializeGraph == [x \in Rooms |-> [y \in Rooms |-> Unset]]

\* number of set cells in row `room`
RoomCount(rooms, room) == Cardinality({idx \in Rooms : rooms[room][idx] # Unset})

isGraphFullAny(g) ==
    IF \E idx \in Rooms : ~(RoomCount(g, idx) < MinConnections) THEN 1 ELSE 0

isGraphFullTwo(g) ==
    IF \E idx \in Rooms : RoomCount(g, idx) < MinConnections - 1 THEN 0 ELSE 1

isGraphFull(g) ==
    IF \E idx \in Rooms : RoomCount(g, idx) < MinConnections THEN 0 ELSE 1

canAddConnectionFromAtMost(rooms, room) ==
    IF RoomCount(rooms, room) <= MaxConnections THEN 1 ELSE 0

canAddConnectionFromMin(rooms, room) ==
    IF RoomCount(rooms, room) < MinConnections THEN 1 ELSE 0

canAddConnectionFrom(rooms, room) ==
    IF RoomCount(rooms, room) < MaxConnections THEN 1 ELSE 0

isSameRoomNever(roomA, roomB) == 0

isSameRoom(roomA, roomB) == IF roomA = roomB THEN 1 ELSE 0

connectionAlreadyExists(g, roomA, roomB) ==
    IF \E idxA \in Rooms :
          /\ g[roomA][idxA] = roomB
          /\ g[roomA][idxA] # Unset
          /\ \E idxB \in Rooms : g[roomB][idxB] # Unset /\ g[roomB][idxB] = roomA
    THEN 1 ELSE 0

connectRoom(g, roomA, roomB) == [g EXCEPT ![roomA][roomB] = roomB]

\* the do-while condition of addRandomConnection: TRUE when roomB is redrawn
RejectB(g, roomA, roomB) ==
    \/ canAddConnectionFrom(g, roomB) = 0
    \/ isSameRoom(roomA, roomB) = 1
    \/ connectionAlreadyExists(g, roomA, roomB) = 1

ConnectBothOneWay(g, roomA, roomB) == connectRoom(g, roomA, roomB)

\* the two connectRoom calls that end addRandomConnection
ConnectBoth(g, roomA, roomB) ==
    connectRoom(connectRoom(g, roomA, roomB), roomB, roomA)

\* One iteration of main's loop: isGraphFull returned 0, addRandomConnection
\* runs to completion.  When the drawn roomA has no acceptable roomB the
\* do-while never exits ("stuck").
addRandomConnection ==
    /\ bpc = "gen"
    /\ isGraphFull(roomGraph) = 0
    /\ IF \A room \in Rooms : canAddConnectionFrom(roomGraph, room) = 0
       THEN \* the while (1) loop never finds a roomA
            /\ bpc' = "stuck"
            /\ UNCHANGED roomGraph
       ELSE \E roomA \in Rooms :
            /\ canAddConnectionFrom(roomGraph, roomA) = 1
            /\ IF \A roomB \in Rooms : RejectB(roomGraph, roomA, roomB)
               THEN \* the do-while never finds a roomB
                    /\ bpc' = "stuck"
                    /\ UNCHANGED roomGraph
               ELSE /\ \E roomB \in Rooms :
                          /\ DrawExplored(roomA, roomB)
                          /\ ~RejectB(roomGraph, roomA, roomB)
                          /\ roomGraph' = ConnectBoth(roomGraph, roomA, roomB)
                    /\ UNCHANGED bpc
    /\ UNCHANGED roleVars
    /\ UNCHANGED gameVars
    /\ UNCHANGED pureVars

\* main's loop exits: isGraphFull returned 1
GenerationDone ==
    /\ bpc = "gen"
    /\ isGraphFull(roomGraph) = 1
    /\ bpc' = "done"
    /\ UNCHANGED roomGraph
    /\ UNCHANGED roleVars
    /\ UNCHANGED gameVars
    /\ UNCHANGED pureVars

\* the adventure program has not been started
GameIdle ==
    /\ roomArr = <<>>
    /\ currentRoom = Unset
    /\ stepCount = 0
    /\ visitedRooms = <<>>
    /\ userInputRoom = ""
    /\ printed = NoOutput
    /\ display = NoDisplay
    /\ gpc = "idle"
    /\ lock = Unlocked
    /\ wpc = [w \in Workers |-> "unborn"]
    /\ requests = 0
    /\ timeFile = <<>>
    /\ handles = {}
    /\ timeString = [w \in Workers |-> <<>>]
    /\ lineRead = <<>>

\* setupRoomFiles has not been called: its locals as declared
RolesIdle ==
    /\ roomTypes = [x \in Rooms |-> Unset]
    /\ fileNum = 0
    /\ fileType = [x \in Rooms |-> NoFile]
    /\ spc = "open"

\* mostRecentRooms has not been called
DirIdle ==
    /\ dirEntries = <<>>
    /\ scanned = 0
    /\ newestModified = Unset
    /\ dirName = ""
    /\ mpc = "idle"

\* selectRooms has not been called: its locals as declared
SelectIdle ==
    /\ chosenRooms = [x \in Rooms |-> Unset]
    /\ selIdx = 0
    /\ selpc = "idle"

\* selectRooms has not been called, no room file is written or read
PureIdle ==
    /\ selectedRooms = <<"", "", "", "", "", "", "">>
    /\ fileText = ""
    /\ roomObj = initializeData
    /\ fpc = "idle"
    /\ DirIdle
    /\ SelectIdle

InitBuild ==
    /\ roomGraph = initializeGraph
    /\ bpc = "gen"
    /\ RolesIdle
    /\ GameIdle
    /\ PureIdle

NextBuild == addRandomConnection \/ GenerationDone

SpecBuild == InitBuild /\ [][NextBuild]_vars

FairBuild == SpecBuild /\ WF_vars(NextBuild)

(***************************************************************************)
(* trompj.buildrooms.c : setupRoomFiles                                    *)
(***************************************************************************)
\* a graph main can pass to setupRoomFiles: the ring 0-1-..-6-0, the chords
\* 0-3, 1-4, 2-5 and, added last, 2-6
SampleEdges == <<
    <<0, 1>>, <<1, 2>>, <<2, 3>>, <<3, 4>>, <<4, 5>>, <<5, 6>>, <<0, 6>>,
    <<0, 3>>, <<1, 4>>, <<2, 5>>, <<2, 6>> >>

RECURSIVE GraphOf(_, _)
GraphOf(edges, n) ==
    IF n = 0 THEN initializeGraph
    ELSE ConnectBoth(GraphOf(edges, n - 1), edges[n][1], edges[n][2])

SampleGraph == GraphOf(SampleEdges, Len(SampleEdges))

uniqueRoomTypeAlways(types, selectedRoom) == 1

\* the for loop over roomTypes that clears uniqueRoom on a match
uniqueRoomType(types, selectedRoom) ==
    IF \E x \in Rooms : types[x] = selectedRoom THEN 0 ELSE 1

\* the role string built from roomTypes[fileNum]
RoomTypeString(t) ==
    IF t = 0 THEN "START_ROOM"
    ELSE IF t = NumRooms - 1 THEN "END_ROOM"
    ELSE "MID_ROOM"

NextFile == IF fileNum + 1 < NumRooms THEN "open" ELSE "done"

\* fopen succeeds: the name line is written, the type loop starts
OpenRoomFile ==
    /\ spc = "open"
    /\ fileNum < NumRooms
    /\ spc' = "type"
    /\ UNCHANGED <<roomTypes, fileNum, fileType>>
    /\ UNCHANGED buildVars
    /\ UNCHANGED gameVars
    /\ UNCHANGED pureVars

\* fopen returns NULL: perror, the else branch is skipped, then fprintf and
\* fclose are called with the NULL pointer (undefined: the process dies, or
\* the calls have no effect and the loop goes on)
OpenRoomFileFails ==
    /\ spc = "open"
    /\ fileNum < NumRooms
    /\ \/ spc' = "crashed" /\ UNCHANGED fileNum
       \/ spc' = NextFile /\ fileNum' = fileNum + 1
    /\ UNCHANGED <<roomTypes, fileType>>
    /\ UNCHANGED buildVars
    /\ UNCHANGED gameVars
    /\ UNCHANGED pureVars

\* one pass of the while (uniqueRoom == 0) loop; when the draw is unique the
\* rest of the iteration runs: connection lines, the type line, fclose
DrawRoomType ==
    /\ spc = "type"
    /\ \E selectedRoom \in Rooms :
          /\ roomTypes' = [roomTypes EXCEPT ![fileNum] = selectedRoom]
          /\ IF uniqueRoomType(roomTypes, selectedRoom) = 1
             THEN /\ fileType' = [fileType EXCEPT ![fileNum] = RoomTypeString(selectedRoom)]
                  /\ fileNum' = fileNum + 1
                  /\ spc' = NextFile
             ELSE UNCHANGED <<fileNum, fileType, spc>>
    /\ UNCHANGED buildVars
    /\ UNCHANGED gameVars
    /\ UNCHANGED pureVars

InitRoles ==
    /\ roomGraph = SampleGraph
    /\ bpc = "done"
    /\ RolesIdle
    /\ GameIdle
    /\ PureIdle

NextRoles == OpenRoomFile \/ OpenRoomFileFails \/ DrawRoomType

SpecRoles == InitRoles /\ [][NextRoles]_vars

(***************************************************************************)
(* trompj.adventure.c : the loaded rooms                                   *)
(***************************************************************************)
\* the names selectRooms handed to setupRoomFiles, by room index
RoomNamesWithTime == <<"Dungeon", "time", "Garden", "Game", "Medical", "Corridor", "Kitchen">>

RoomNames == <<"Dungeon", "Barracks", "Garden", "Game", "Medical", "Corridor", "Kitchen">>
RoomName(r) == RoomNames[r + 1]

\* the CONNECTION lines of room r's file from column col on, in file order,
\* as readFile stores them in roomConnections
RECURSIVE ConnectionNames(_, _, _)
ConnectionNames(g, r, col) ==
    IF col = NumRooms THEN <<>>
    ELSE (IF g[r][col] # Unset THEN <<RoomName(g[r][col])>> ELSE <<>>)
             \o ConnectionNames(g, r, col + 1)

\* the struct room readFile returns for room r's file
LoadRoom(g, types, r) ==
    [roomName |-> RoomName(r),
     roomType |-> RoomTypeString(types[r]),
     roomConnections |-> ConnectionNames(g, r, 0)]

\* roomTypes as setupRoomFiles can leave them: START at room 0, 0 or 4 and
\* END at room 6, 2 or 0
SampleRoomTypes ==
    { [r \in Rooms |-> r],
      [r \in Rooms |-> IF r = 2 THEN 6 ELSE IF r = 6 THEN 2 ELSE r],
      [r \in Rooms |-> IF r = 0 THEN 6 ELSE IF r = 4 THEN 0 ELSE IF r = 6 THEN 4 ELSE r] }

\* a line of 24 characters, longer than any room name
LongLine == "AAAAAAAAAAAAAAAAAAAAAAAA"

\* the lines the player can type (without the newline): the seven room
\* names, the keyword, a name that is no room of this run, an empty line,
\* a long line
InputLines == {RoomName(r) : r \in Rooms} \cup {"time", "Attic", "", LongLine}

(***************************************************************************)
(* trompj.adventure.c : runGameDriver                                      *)
(***************************************************************************)
\* the outer for loop of lines 407-448 finds `input` among the current
\* room's connections
ConnectionMatches(input) ==
    \E i \in 1..Len(roomArr[currentRoom].roomConnections) :
        roomArr[currentRoom].roomConnections[i] = input

GrowVisitedShift(visited, steps, name) ==
    [i \in 1..steps |-> IF i = 1 THEN name ELSE visited[i - 1]]

\* lines 424-441: the new array of `steps` names, the old ones copied and
\* the new name stored last
GrowVisited(visited, steps, name) ==
    [i \in 1..steps |-> IF i < steps THEN visited[i] ELSE name]

\* the inner for loop of lines 418-444 from roomNum on
RECURSIVE FindRoom(_, _, _)
FindRoom(st, input, roomNum) ==
    IF roomNum = NumRooms THEN st
    ELSE IF roomArr[roomNum].roomName = input
         THEN FindRoom([cur |-> roomNum,
                        steps |-> st.steps + 1,
                        visited |-> GrowVisited(st.visited, st.steps + 1, input),
                        found |-> 1],
                       input, roomNum + 1)
         ELSE FindRoom(st, input, roomNum + 1)

MatchInputRecordsAll(st, input) ==
    [cur |-> st.cur, steps |-> st.steps + 1,
     visited |-> GrowVisited(st.visited, st.steps + 1, input), found |-> 0]

\* lines 404-448: the search of the command among the current room's
\* connections and, on a match, the move
MatchInput(st, input) ==
    IF ConnectionMatches(input) THEN FindRoom(st, input, 0) ELSE st

UserInputSize == 10

\* lines 400-401: strcpy(userInputRoom, buffer) copies the line, its newline
\* and the terminating NUL; TRUE when that is more than userInputRoom holds
strcpyOverflows(input) == Len(input) + 2 > UserInputSize

Apology == "HUH? I DON'T UNDERSTAND THAT ROOM. TRY AGAIN."
Congratulations == "YOU HAVE FOUND THE END ROOM. CONGRATULATIONS!"

LoopOutputOffByOne(st, input) ==
    IF st.found = 0 /\ input = "time" THEN NoOutput
    ELSE IF st.found = 0 THEN [msg |-> Apology, steps |-> 0, path |-> <<>>]
    ELSE IF roomArr[st.cur].roomType = "END_ROOM"
         THEN [msg |-> Congratulations, steps |-> st.steps, path |-> Tail(st.visited)]
    ELSE NoOutput

\* lines 453-472: what the if / else-if chain after the matching prints
LoopOutput(st, input) ==
    IF st.found = 0 /\ input = "time" THEN NoOutput
    ELSE IF st.found = 0 THEN [msg |-> Apology, steps |-> 0, path |-> <<>>]
    ELSE IF roomArr[st.cur].roomType = "END_ROOM"
         THEN [msg |-> Congratulations, steps |-> st.steps, path |-> st.visited]
    ELSE NoOutput

LoopDisplayAlways(lastInput, room) ==
    [location |-> roomArr[room].roomName,
     connections |-> roomArr[room].roomConnections]

\* lines 361-390: what the iteration prints before the prompt, lastInput
\* being userInputRoom as the iteration before left it: the name of the
\* current room and the names of its connections, or nothing
LoopDisplay(lastInput, room) ==
    IF lastInput # "time"
    THEN [location |-> roomArr[room].roomName,
          connections |-> roomArr[room].roomConnections]
    ELSE NoDisplay

\* one iteration of the while loop of runGameDriver, up to the call of
\* timeProcessing when the command is a time request; a line that
\* overflows userInputRoom is handled here when the bytes written past the
\* array hit nothing the function uses
RunLoopIteration ==
    /\ gpc = "loop"
    /\ roomArr[currentRoom].roomType # "END_ROOM"
    /\ \E input \in InputLines :
          LET st0 == [cur |-> currentRoom, steps |-> stepCount,
                      visited |-> visitedRooms, found |-> 0]
              st == MatchInput(st0, input)
          IN /\ st.found = 1 => stepCount < MaxSteps
             /\ (st.found = 0 /\ input = "time") => requests < MaxRequests
             /\ userInputRoom' = input
             /\ currentRoom' = st.cur
             /\ stepCount' = st.steps
             /\ visitedRooms' = st.visited
             /\ printed' = LoopOutput(st, input)
             /\ display' = LoopDisplay(userInputRoom, currentRoom)
             /\ gpc' = IF st.found = 0 /\ input = "time" THEN "tp_unlock"
                       ELSE IF st.found = 0 THEN "loop"
                       ELSE IF roomArr[st.cur].roomType = "END_ROOM" THEN "won"
                       ELSE "loop"
    /\ UNCHANGED roomArr
    /\ UNCHANGED timeVars
    /\ UNCHANGED <<buildVars, roleVars>>
    /\ UNCHANGED pureVars

\* the iteration reads a line that overflows userInputRoom and the bytes
\* strcpy writes past the array destroy what the function needs to go on
\* (saved registers, the return address, the stack guard): the process is
\* killed before anything more is printed
RunLoopOverflow ==
    /\ gpc = "loop"
    /\ roomArr[currentRoom].roomType # "END_ROOM"
    /\ \E input \in InputLines :
          /\ strcpyOverflows(input)
          /\ userInputRoom' = input
    /\ printed' = NoOutput
    /\ display' = LoopDisplay(userInputRoom, currentRoom)
    /\ gpc' = "crashed"
    /\ UNCHANGED <<roomArr, currentRoom, stepCount, visitedRooms>>
    /\ UNCHANGED timeVars
    /\ UNCHANGED <<buildVars, roleVars>>
    /\ UNCHANGED pureVars

\* lines 476-485: the loop has ended, the path is freed, the mutex destroyed
DestroyMutex ==
    /\ gpc = "won"
    /\ gpc' = "exited"
    /\ UNCHANGED loopVars
    /\ UNCHANGED timeVars
    /\ UNCHANGED <<buildVars, roleVars>>
    /\ UNCHANGED pureVars

(***************************************************************************)
(* trompj.adventure.c : timeProcessing and readTimeFile (main thread)      *)
(***************************************************************************)
LineBufSize == 80

\* index of the first NewLine of content at or after i, else Len(content)
RECURSIVE LineEnd(_, _)
LineEnd(content, i) ==
    IF i > Len(content) THEN Len(content)
    ELSE IF content[i] = NewLine THEN i
    ELSE LineEnd(content, i + 1)

\* fgets(lineRead, n, f) at offset 0: through the first newline, at most
\* n - 1 characters
fgets(content, n) ==
    LET e == LineEnd(content, 1)
    IN SubSeq(content, 1, IF e < n - 1 THEN e ELSE n - 1)

\* the thread pthread_join waits for: the one pthread_create just made
JoinTargetPrevious == IF requests > 1 THEN requests - 1 ELSE requests

JoinTarget == requests

JoinReturnsAlways(w) == TRUE

\* pthread_join returns once the thread has ended
JoinReturns(w) == wpc[w] = "exited"

\* the process runs: exit has not been called, main has not returned and
\* the process has not been killed
ProcessRunning == gpc \notin {"idle", "aborted", "exited", "crashed"}

\* pthread_mutex_unlock at the head of timeProcessing
TpUnlock ==
    /\ gpc = "tp_unlock"
    /\ lock' = Unlocked
    /\ gpc' = "tp_create"
    /\ UNCHANGED <<wpc, requests, timeFile, handles, timeString, lineRead>>
    /\ UNCHANGED loopVars
    /\ UNCHANGED <<buildVars, roleVars>>
    /\ UNCHANGED pureVars

\* pthread_create succeeds: a new thread starts writeTimeFileThread
TpCreate ==
    /\ gpc = "tp_create"
    /\ requests' = requests + 1
    /\ wpc' = [wpc EXCEPT ![requests + 1] = "w_lock"]
    /\ gpc' = "tp_join"
    /\ UNCHANGED <<lock, timeFile, handles, timeString, lineRead>>
    /\ UNCHANGED loopVars
    /\ UNCHANGED <<buildVars, roleVars>>
    /\ UNCHANGED pureVars

\* pthread_create fails: perror and exit(1)
TpCreateFails ==
    /\ gpc = "tp_create"
    /\ gpc' = "aborted"
    /\ UNCHANGED timeVars
    /\ UNCHANGED loopVars
    /\ UNCHANGED <<buildVars, roleVars>>
    /\ UNCHANGED pureVars

\* pthread_join(thread, NULL)
TpJoin ==
    /\ gpc = "tp_join"
    /\ JoinReturns(JoinTarget)
    /\ gpc' = "tp_lock"
    /\ UNCHANGED timeVars
    /\ UNCHANGED loopVars
    /\ UNCHANGED <<buildVars, roleVars>>
    /\ UNCHANGED pureVars

\* pthread_mutex_lock by main after the join
TpLock ==
    /\ gpc = "tp_lock"
    /\ lock = Unlocked
    /\ lock' = MainThread
    /\ gpc' = "tp_open"
    /\ UNCHANGED <<wpc, requests, timeFile, handles, timeString, lineRead>>
    /\ UNCHANGED loopVars
    /\ UNCHANGED <<buildVars, roleVars>>
    /\ UNCHANGED pureVars

\* readTimeFile: fopen(fileName, "r")
TpOpen ==
    /\ gpc = "tp_open"
    /\ handles' = handles \cup {MainThread}
    /\ gpc' = "tp_read"
    /\ UNCHANGED <<lock, wpc, requests, timeFile, timeString, lineRead>>
    /\ UNCHANGED loopVars
    /\ UNCHANGED <<buildVars, roleVars>>
    /\ UNCHANGED pureVars

\* readTimeFile: fopen(fileName, "r") returns NULL; fseek and fgets are
\* then called with the NULL pointer and the process is killed
TpOpenFails ==
    /\ gpc = "tp_open"
    /\ gpc' = "crashed"
    /\ UNCHANGED timeVars
    /\ UNCHANGED loopVars
    /\ UNCHANGED <<buildVars, roleVars>>
    /\ UNCHANGED pureVars

\* readTimeFile: fseek, fgets, printf
TpRead ==
    /\ gpc = "tp_read"
    /\ lineRead' = fgets(timeFile, LineBufSize)
    /\ gpc' = "tp_close"
    /\ UNCHANGED <<lock, wpc, requests, timeFile, handles, timeString>>
    /\ UNCHANGED loopVars
    /\ UNCHANGED <<buildVars, roleVars>>
    /\ UNCHANGED pureVars

\* readTimeFile: fclose; timeProcessing returns to the run loop
TpClose ==
    /\ gpc = "tp_close"
    /\ handles' = handles \ {MainThread}
    /\ gpc' = "loop"
    /\ UNCHANGED <<lock, wpc, requests, timeFile, timeString, lineRead>>
    /\ UNCHANGED loopVars
    /\ UNCHANGED <<buildVars, roleVars>>
    /\ UNCHANGED pureVars

(***************************************************************************)
(* trompj.adventure.c : writeTimeFileThread (worker thread)                *)
(***************************************************************************)
OpenForAppend(content) == content

\* fopen(fileName, "w"): the file is created or truncated
OpenForWrite(content) == <<>>

\* the longest line the format "%l:%M%P, %A, %B %d, %Y\n" yields in the C
\* locale ("12:00pm, Wednesday, September 30, 2020" and the newline)
TimeStringLen == 39

\* strftime of clock reading t: one line of text that depends on t, ended
\* by a newline
strftime(t) == [i \in 1..TimeStringLen |-> IF i = TimeStringLen THEN NewLine ELSE t]

\* pthread_mutex_lock at the head of the thread
WLock(w) ==
    /\ ProcessRunning
    /\ wpc[w] = "w_lock"
    /\ lock = Unlocked
    /\ lock' = w
    /\ wpc' = [wpc EXCEPT ![w] = "w_open"]
    /\ UNCHANGED <<requests, timeFile, handles, timeString, lineRead>>
    /\ UNCHANGED <<loopVars, gpc>>
    /\ UNCHANGED <<buildVars, roleVars>>
    /\ UNCHANGED pureVars

\* fopen(fileName, "w")
WOpen(w) ==
    /\ ProcessRunning
    /\ wpc[w] = "w_open"
    /\ timeFile' = OpenForWrite(timeFile)
    /\ handles' = handles \cup {w}
    /\ wpc' = [wpc EXCEPT ![w] = "w_time"]
    /\ UNCHANGED <<lock, requests, timeString, lineRead>>
    /\ UNCHANGED <<loopVars, gpc>>
    /\ UNCHANGED <<buildVars, roleVars>>
    /\ UNCHANGED pureVars

\* fopen(fileName, "w") returns NULL; the thread goes on to fprintf and
\* fflush with the NULL pointer and the process is killed
WOpenFails(w) ==
    /\ ProcessRunning
    /\ wpc[w] = "w_open"
    /\ gpc' = "crashed"
    /\ UNCHANGED timeVars
    /\ UNCHANGED loopVars
    /\ UNCHANGED <<buildVars, roleVars>>
    /\ UNCHANGED pureVars

\* time, localtime and strftime succeed
WTime(w) ==
    /\ ProcessRunning
    /\ wpc[w] = "w_time"
    /\ \E t \in Clock : timeString' = [timeString EXCEPT ![w] = strftime(t)]
    /\ wpc' = [wpc EXCEPT ![w] = "w_write"]
    /\ UNCHANGED <<lock, requests, timeFile, handles, lineRead>>
    /\ UNCHANGED <<loopVars, gpc>>
    /\ UNCHANGED <<buildVars, roleVars>>
    /\ UNCHANGED pureVars

\* localtime returns NULL or strftime returns 0: exit(1)
WTimeFails(w) ==
    /\ ProcessRunning
    /\ wpc[w] = "w_time"
    /\ gpc' = "aborted"
    /\ UNCHANGED timeVars
    /\ UNCHANGED loopVars
    /\ UNCHANGED <<buildVars, roleVars>>
    /\ UNCHANGED pureVars

\* fprintf and fflush
WWrite(w) ==
    /\ ProcessRunning
    /\ wpc[w] = "w_write"
    /\ timeFile' = timeFile \o timeString[w]
    /\ wpc' = [wpc EXCEPT ![w] = "w_close"]
    /\ UNCHANGED <<lock, requests, handles, timeString, lineRead>>
    /\ UNCHANGED <<loopVars, gpc>>
    /\ UNCHANGED <<buildVars, roleVars>>
    /\ UNCHANGED pureVars

\* fclose
WClose(w) ==
    /\ ProcessRunning
    /\ wpc[w] = "w_close"
    /\ handles' = handles \ {w}
    /\ wpc' = [wpc EXCEPT ![w] = "w_unlock"]
    /\ UNCHANGED <<lock, requests, timeFile, timeString, lineRead>>
    /\ UNCHANGED <<loopVars, gpc>>
    /\ UNCHANGED <<buildVars, roleVars>>
    /\ UNCHANGED pureVars

\* pthread_mutex_unlock, then the thread function returns
WUnlock(w) ==
    /\ ProcessRunning
    /\ wpc[w] = "w_unlock"
    /\ lock' = Unlocked
    /\ wpc' = [wpc EXCEPT ![w] = "exited"]
    /\ UNCHANGED <<requests, timeFile, handles, timeString, lineRead>>
    /\ UNCHANGED <<loopVars, gpc>>
    /\ UNCHANGED <<buildVars, roleVars>>
    /\ UNCHANGED pureVars

Worker(w) ==
    \/ WLock(w) \/ WOpen(w) \/ WOpenFails(w) \/ WTime(w) \/ WTimeFails(w)
    \/ WWrite(w) \/ WClose(w) \/ WUnlock(w)

\* lines 326-333: the last room of roomArr whose type is START_ROOM
FindStartRoom(arr) ==
    LET starts == {r \in Rooms : arr[r].roomType = "START_ROOM"}
    IN CHOOSE r \in starts : \A q \in starts : q <= r

\* runGameDriver up to the while loop: the current room is the START room,
\* the mutex is initialised and locked by main
InitGame ==
    /\ roomGraph = SampleGraph
    /\ bpc = "done"
    /\ RolesIdle
    /\ \E types \in SampleRoomTypes :
          /\ roomArr = [r \in Rooms |-> LoadRoom(SampleGraph, types, r)]
          /\ currentRoom = FindStartRoom([r \in Rooms |-> LoadRoom(SampleGraph, types, r)])
    /\ stepCount = 0
    /\ visitedRooms = <<>>
    /\ userInputRoom = ""
    /\ printed = NoOutput
    /\ display = NoDisplay
    /\ gpc = "loop"
    /\ lock = MainThread
    /\ wpc = [w \in Workers |-> "unborn"]
    /\ requests = 0
    /\ timeFile = <<>>
    /\ handles = {}
    /\ timeString = [w \in Workers |-> <<>>]
    /\ lineRead = <<>>
    /\ PureIdle

NextGame ==
    \/ RunLoopIteration \/ RunLoopOverflow \/ DestroyMutex
    \/ TpUnlock \/ TpCreate \/ TpCreateFails \/ TpJoin \/ TpLock
    \/ TpOpen \/ TpOpenFails \/ TpRead \/ TpClose
    \/ \E w \in Workers : Worker(w)

SpecGame == InitGame /\ [][NextGame]_vars

\* the steps of the main thread inside timeProcessing
TimeProcessingStep ==
    \/ TpUnlock \/ TpCreate \/ TpCreateFails \/ TpJoin \/ TpLock
    \/ TpOpen \/ TpOpenFails \/ TpRead \/ TpClose

\* InitGame with the first of the sample role assignments: room 0 is
\* START, room 6 is END
InitFairGame ==
    /\ InitGame
    /\ roomArr = [r \in Rooms |-> LoadRoom(SampleGraph, [x \in Rooms |-> x], r)]

\* the game with every runnable thread scheduled fairly: the main thread
\* while it is inside timeProcessing (in the run loop it waits for the
\* player, who need not type anything) and each worker thread
FairGame ==
    /\ InitFairGame
    /\ [][NextGame]_vars
    /\ WF_vars(TimeProcessingStep)
    /\ \A w \in Workers : WF_vars(Worker(w))

(***************************************************************************)
(* trompj.buildrooms.c : the text setupRoomFiles writes to a room file     *)
(***************************************************************************)
\* char* rooms[10] of selectRooms
PoolNames == <<"Dungeon", "Barracks", "Garden", "Game", "Medical",
               "Corridor", "Kitchen", "Stairs", "Basement", "Attic">>

\* selections selectRooms can return: seven distinct names of the pool
SampleSelections ==
    { RoomNames,
      <<"Attic", "Basement", "Stairs", "Kitchen", "Corridor", "Medical", "Game">>,
      <<"Stairs", "Garden", "Attic", "Barracks", "Basement", "Dungeon", "Corridor">> }

FileOutputSize == 25

\* sprintf(connectionChar, "%d", connCounter) for a one-digit number
Digit(n) == SubSeq("0123456789", n + 1, n + 1)

\* lines 241-245: the name line
NameLine(name) == "ROOM NAME: " \o name \o "\n"

ConnectionLineNoBlank(connCounter, name) ==
    "CONNECTION " \o Digit(connCounter) \o ":" \o name \o "\n"

\* lines 276-289: one connection line
ConnectionLine(connCounter, name) ==
    "CONNECTION " \o Digit(connCounter) \o ": " \o name \o "\n"

RECURSIVE ConnectionLinesByColumn(_, _, _, _, _)
ConnectionLinesByColumn(g, names, file, connection, connCounter) ==
    IF connection = NumRooms THEN ""
    ELSE IF g[file][connection] # Unset
         THEN ConnectionLine(connection + 1, names[g[file][connection] + 1])
                  \o ConnectionLinesByColumn(g, names, file, connection + 1, connCounter + 1)
         ELSE ConnectionLinesByColumn(g, names, file, connection + 1, connCounter)

\* lines 271-290: the for loop over the columns of row fileNum from column
\* `connection` on, connCounter lines written so far
RECURSIVE ConnectionLines(_, _, _, _, _)
ConnectionLines(g, names, file, connection, connCounter) ==
    IF connection = NumRooms THEN ""
    ELSE IF g[file][connection] # Unset
         THEN ConnectionLine(connCounter + 1, names[g[file][connection] + 1])
                  \o ConnectionLines(g, names, file, connection + 1, connCounter + 1)
         ELSE ConnectionLines(g, names, file, connection + 1, connCounter)

\* lines 294-304: the type line
TypeLine(t) == "ROOM TYPE: " \o RoomTypeString(t) \o "\n"

\* everything setupRoomFiles prints to the file of room `file`
RoomFileText(g, names, types, file) ==
    NameLine(names[file + 1])
        \o ConnectionLines(g, names, file, 0, 0)
        \o TypeLine(types[file])

(***************************************************************************)
(* trompj.adventure.c : readFile                                           *)
(***************************************************************************)
ReadBufSize == 255
\* malloc(sizeof(char)*11) for the name and for the type
NameBufSize == 11
\* malloc(sizeof(char)*10) for a connection
ConnBufSize == 10

\* index of the first newline of text at or after i, else Len(text)
RECURSIVE TextLineEnd(_, _)
TextLineEnd(text, i) ==
    IF i > Len(text) THEN Len(text)
    ELSE IF SubSeq(text, i, i) = "\n" THEN i
    ELSE TextLineEnd(text, i + 1)

\* fgets(lineRead, n, fPointer) on the unread text: through the first
\* newline, at most n - 1 characters
fgetsText(text, n) ==
    LET e == TextLineEnd(text, 1)
    IN SubSeq(text, 1, IF e < n - 1 THEN e ELSE n - 1)

\* strstr(line, pattern) finds the pattern
strstr(line, pattern) ==
    \E i \in 1..(Len(line) - Len(pattern) + 1) :
        SubSeq(line, i, i + Len(pattern) - 1) = pattern

\* the copy loops of readFile: the characters of the line from offset i
\* (counted from 0) on, newlines left out
RECURSIVE CopyChars(_, _)
CopyChars(line, i) ==
    IF i >= Len(line) THEN ""
    ELSE (IF SubSeq(line, i + 1, i + 1) = "\n" THEN "" ELSE SubSeq(line, i + 1, i + 1))
             \o CopyChars(line, i + 1)

\* the while loop of readFile on the unread text
RECURSIVE readLines(_, _)
readLines(obj, text) ==
    IF text = "" THEN obj
    ELSE LET line == fgetsText(text, ReadBufSize)
             rest == SubSeq(text, Len(line) + 1, Len(text))
         IN IF strstr(line, "ROOM NAME:")
            THEN readLines([obj EXCEPT !.roomName = CopyChars(line, 11)], rest)
            ELSE IF strstr(line, "ROOM TYPE:")
            THEN readLines([obj EXCEPT !.roomType = CopyChars(line, 11)], rest)
            ELSE IF strstr(line, "CONNECTION")
            THEN readLines([obj EXCEPT !.roomConnections = Append(@, CopyChars(line, 14))], rest)
            ELSE readLines(obj, rest)

readFile(text) == readLines(initializeData, text)

\* a graph whose row `file` holds the connections to the rooms of S
StarGraph(file, S) ==
    [x \in Rooms |-> [y \in Rooms |->
        IF (x = file /\ y \in S) \/ (y = file /\ x \in S) THEN y ELSE Unset]]

\* setupRoomFiles writes the file of room fileNum
WriteRoomFile ==
    /\ fpc = "write"
    /\ fileText' = RoomFileText(roomGraph, selectedRooms, roomTypes, fileNum)
    /\ fpc' = "read"
    /\ UNCHANGED <<selectedRooms, roomObj>>
    /\ UNCHANGED <<buildVars, roleVars, gameVars, dirVars, selVars>>

\* setRoomArray has opened the file: readFile parses it
ReadRoomFile ==
    /\ fpc = "read"
    /\ roomObj' = readFile(fileText)
    /\ fpc' = "parsed"
    /\ UNCHANGED <<selectedRooms, fileText>>
    /\ UNCHANGED <<buildVars, roleVars, gameVars, dirVars, selVars>>

\* one room record: its index, its name among a selection, any set of 0 to
\* 6 connections, any drawn type
InitFile ==
    /\ fileNum \in Rooms
    /\ \E S \in SUBSET (Rooms \ {fileNum}) : roomGraph = StarGraph(fileNum, S)
    /\ bpc = "done"
    /\ \E t \in Rooms : roomTypes = [x \in Rooms |-> IF x = fileNum THEN t ELSE Unset]
    /\ fileType = [x \in Rooms |-> NoFile]
    /\ spc = "type"
    /\ GameIdle
    /\ selectedRooms \in SampleSelections
    /\ fileText = ""
    /\ roomObj = initializeData
    /\ fpc = "write"
    /\ DirIdle
    /\ SelectIdle

NextRoundTrip == WriteRoomFile \/ ReadRoomFile

SpecFile == InitFile /\ [][NextRoundTrip]_vars

(***************************************************************************)
(* trompj.adventure.c : mostRecentRooms                                    *)
(***************************************************************************)
\* char dirPrefix[15]
dirPrefix == "trompj.rooms."

\* names of entries of the current directory: three rooms directories, a
\* directory whose name holds the prefix string after other characters,
\* and an entry without it
EntryNames == {"trompj.rooms.1", "trompj.rooms.2", "trompj.rooms.3",
               "old.trompj.rooms.4", "notes.txt"}

\* st_mtime as stat fills it; every value here is in the range of int, so
\* the cast (int) leaves it as it is
Times == 0..MaxTime

\* what one scan can meet: up to MaxEntries entries with distinct names
Scans ==
    UNION { { sc \in [1..n -> [d_name : EntryNames, st_mtime : Times]] :
                \A i \in 1..n, j \in 1..n : i # j => sc[i].d_name # sc[j].d_name }
            : n \in 0..MaxEntries }

IsNewerOrSame(mtime, newest) == mtime >= newest

\* line 166: (int) dirAttributes.st_mtime > newestModified
IsNewer(mtime, newest) == mtime > newest

\* opendir(".") succeeds
OpenDir ==
    /\ mpc = "open"
    /\ mpc' = "scan"
    /\ UNCHANGED <<dirEntries, scanned, newestModified, dirName>>
    /\ UNCHANGED <<buildVars, roleVars, gameVars, fileVars, selVars>>

\* opendir(".") fails: perror, then closedir is called with the NULL
\* pointer (undefined: it returns an error, or the process dies)
OpenDirFails ==
    /\ mpc = "open"
    /\ \/ mpc' = "done"
       \/ mpc' = "crashed"
    /\ UNCHANGED <<dirEntries, scanned, newestModified, dirName>>
    /\ UNCHANGED <<buildVars, roleVars, gameVars, fileVars, selVars>>

\* one pass of the while loop: readdir returns the next entry, stat
\* succeeds
ReadDirEntry ==
    /\ mpc = "scan"
    /\ scanned < Len(dirEntries)
    /\ scanned' = scanned + 1
    /\ LET subDir == dirEntries[scanned + 1]
       IN IF strstr(subDir.d_name, dirPrefix) /\ IsNewer(subDir.st_mtime, newestModified)
          THEN /\ newestModified' = subDir.st_mtime
               /\ dirName' = subDir.d_name
          ELSE UNCHANGED <<newestModified, dirName>>
    /\ UNCHANGED <<dirEntries, mpc>>
    /\ UNCHANGED <<buildVars, roleVars, gameVars, fileVars, selVars>>

\* readdir returns NULL: closedir, mostRecentRooms returns
CloseDir ==
    /\ mpc = "scan"
    /\ scanned = Len(dirEntries)
    /\ mpc' = "done"
    /\ UNCHANGED <<dirEntries, scanned, newestModified, dirName>>
    /\ UNCHANGED <<buildVars, roleVars, gameVars, fileVars, selVars>>

\* main has called mostRecentRooms: dirName is cleared, newestModified is -1
InitDir ==
    /\ roomGraph = initializeGraph
    /\ bpc = "gen"
    /\ RolesIdle
    /\ GameIdle
    /\ selectedRooms = <<"", "", "", "", "", "", "">>
    /\ fileText = ""
    /\ roomObj = initializeData
    /\ fpc = "idle"
    /\ dirEntries \in Scans
    /\ scanned = 0
    /\ newestModified = Unset
    /\ dirName = ""
    /\ mpc = "open"
    /\ SelectIdle

NextDir == OpenDir \/ OpenDirFails \/ ReadDirEntry \/ CloseDir

SpecDir == InitDir /\ [][NextDir]_vars

(***************************************************************************)
(* trompj.buildrooms.c : selectRooms                                       *)
(***************************************************************************)
PoolSize == 10

uniqueRoomAlways(chosen, selectedRoom) == 1

\* lines 191-196: the for loop over chosenRooms that clears uniqueRoom on a
\* match
uniqueRoom(chosen, selectedRoom) ==
    IF \E x \in Rooms : chosen[x] = selectedRoom THEN 0 ELSE 1

\* one pass of the while (uniqueRoom == 0) loop of slot selIdx; when the
\* draw is unique the slot is filled and the for loop goes on
DrawRoomName ==
    /\ selpc = "draw"
    /\ \E selectedRoom \in 0..(PoolSize - 1) :
          IF uniqueRoom(chosenRooms, selectedRoom) = 1
          THEN /\ chosenRooms' = [chosenRooms EXCEPT ![selIdx] = selectedRoom]
               /\ selectedRooms' = [selectedRooms EXCEPT ![selIdx + 1] = PoolNames[selectedRoom + 1]]
               /\ selIdx' = selIdx + 1
               /\ selpc' = IF selIdx + 1 < NumRooms THEN "draw" ELSE "done"
          ELSE UNCHANGED <<chosenRooms, selectedRooms, selIdx, selpc>>
    /\ UNCHANGED <<fileText, roomObj, fpc>>
    /\ UNCHANGED <<buildVars, roleVars, gameVars, dirVars>>

\* main has called selectRooms with selectedRooms = { "", .. }, after the
\* graph was generated
InitSelect ==
    /\ roomGraph = SampleGraph
    /\ bpc = "done"
    /\ RolesIdle
    /\ GameIdle
    /\ selectedRooms = <<"", "", "", "", "", "", "">>
    /\ fileText = ""
    /\ roomObj = initializeData
    /\ fpc = "idle"
    /\ DirIdle
    /\ chosenRooms = [x \in Rooms |-> Unset]
    /\ selIdx = 0
    /\ selpc = "draw"

NextSelect == DrawRoomName

SpecSelect == InitSelect /\ [][NextSelect]_vars

(***************************************************************************)
(* Properties of the graph generation (SpecBuild)                          *)
(***************************************************************************)
\* room a records room b as a connection
Connected(g, a, b) == \E idx \in Rooms : g[a][idx] = b

\* number of undirected edges recorded in g
EdgeCount(g) ==
    Cardinality({p \in Rooms \X Rooms : p[1] < p[2] /\ Connected(g, p[1], p[2])})

\* rooms recorded as a connection by some room of S
Neighbours(g, S) == {b \in Rooms : \E a \in S : Connected(g, a, b)}

\* rooms reachable from s through recorded connections (paths of at most
\* NumRooms - 1 connections)
ReachFrom(g, s) ==
    LET R1 == {s} \cup Neighbours(g, {s})
        R2 == R1 \cup Neighbours(g, R1)
        R3 == R2 \cup Neighbours(g, R2)
        R4 == R3 \cup Neighbours(g, R3)
        R5 == R4 \cup Neighbours(g, R4)
    IN R5 \cup Neighbours(g, R5)

\* C1: when the generation loop has terminated, every room has between 3
\* and 6 connections.
DegreesInRangeAtEnd ==
    bpc = "done" =>
        \A r \in Rooms : RoomCount(roomGraph, r) \in MinConnections..MaxConnections

\* a finished graph with a room of exactly 3 and a room of exactly 6 connections
WitnessDegreesAtEnd ==
    /\ bpc = "done"
    /\ \E r \in Rooms : RoomCount(roomGraph, r) = MinConnections
    /\ \E r \in Rooms : RoomCount(roomGraph, r) = MaxConnections

Symmetric ==
    \A a \in Rooms, b \in Rooms :
        Connected(roomGraph, a, b) <=> Connected(roomGraph, b, a)

\* addRandomConnection has connected two rooms, each recording the other
WitnessSymmetric ==
    \E a \in Rooms, b \in Rooms :
        a # b /\ Connected(roomGraph, a, b) /\ Connected(roomGraph, b, a)

\* no room records itself and no room records another room twice
NoSelfNoDuplicate(g) ==
    \A a \in Rooms, i \in Rooms :
        /\ g[a][i] # a
        /\ \A j \in Rooms : (i < j /\ g[a][i] # Unset) => g[a][i] # g[a][j]

\* the step from g to h adds exactly one undirected edge, between two
\* distinct rooms that were not connected in g, and changes nothing else
AddsOneNewEdge(g, h) ==
    LET changed == {x \in Rooms : g[x] # h[x]}
    IN \E a \in changed, b \in changed :
          /\ a # b
          /\ changed = {a, b}
          /\ ~Connected(g, a, b) /\ ~Connected(g, b, a)
          /\ Connected(h, a, b) /\ Connected(h, b, a)
          /\ \A x \in changed, y \in Rooms :
                Connected(h, x, y) <=> (Connected(g, x, y) \/ {x, y} = {a, b})

\* C4: no self-connection and no duplicate connection in any reachable
\* state, and each addRandomConnection adds exactly one new undirected edge
\* between two distinct, previously unconnected rooms.
OneNewEdgePerCall ==
    /\ [](NoSelfNoDuplicate(roomGraph))
    /\ [][roomGraph' # roomGraph => AddsOneNewEdge(roomGraph, roomGraph')]_vars

\* two calls have completed and a room has two distinct connections
WitnessOneNewEdgePerCall ==
    /\ EdgeCount(roomGraph) >= 2
    /\ \E a \in Rooms : RoomCount(roomGraph, a) >= 2

\* C5: under fair scheduling of the loop the generation terminates with
\* every room having at least 3 connections.
GenerationTerminates ==
    <>(bpc = "done" /\ \A r \in Rooms : RoomCount(roomGraph, r) >= MinConnections)

\* generation has ended after the largest number of accepted edges the
\* draws allow
WitnessGenerationTerminates ==
    /\ bpc = "done"
    /\ EdgeCount(roomGraph) >= MaxPairs
(***************************************************************************)
(* Properties of setupRoomFiles (SpecRoles)                                *)
(***************************************************************************)
FilesOfType(t) == {f \in Rooms : fileType[f] = t}

\* setupRoomFiles has returned and every fopen succeeded
AllFilesWritten == spc = "done" /\ FilesOfType(NoFile) = {}

\* C6: when all 7 files opened, exactly one record is START_ROOM, exactly
\* one is END_ROOM (a different room), and the other five are MID_ROOM.
OneStartOneEnd ==
    AllFilesWritten =>
        /\ Cardinality(FilesOfType("START_ROOM")) = 1
        /\ Cardinality(FilesOfType("END_ROOM")) = 1
        /\ FilesOfType("START_ROOM") # FilesOfType("END_ROOM")
        /\ Cardinality(FilesOfType("MID_ROOM")) = NumRooms - 2

\* all files written, START neither first nor last, END before START
WitnessOneStartOneEnd ==
    /\ AllFilesWritten
    /\ fileType[4] = "START_ROOM"
    /\ fileType[1] = "END_ROOM"
(***************************************************************************)
(* Properties of the time subsystem and the run loop (SpecGame)            *)
(***************************************************************************)
\* created and not yet returned from writeTimeFileThread
Alive(w) == wpc[w] \notin {"unborn", "exited"}

\* the main thread is inside readTimeFile
MainReading == gpc \in {"tp_read", "tp_close"} \/ MainThread \in handles

\* the worker has truncated the file and not yet closed it
WorkerWriting(w) == wpc[w] \in {"w_time", "w_write", "w_close"} \/ w \in handles

\* C7: the main thread reads the time file only after the worker of the
\* request has written the whole line, closed the file and ended (joined);
\* a write and the read never overlap.
ReadAfterWriteAndJoin ==
    /\ \A w \in Workers : ~(MainReading /\ WorkerWriting(w))
    /\ MainReading =>
          /\ requests \in Workers
          /\ wpc[requests] = "exited"
          /\ timeString[requests] # <<>>
          /\ timeFile = timeString[requests]

\* the main thread holds the file open for reading in the second request
WitnessReadAfterWriteAndJoin ==
    /\ gpc = "tp_read"
    /\ MainThread \in handles
    /\ requests = 2

\* C8: every time request creates exactly one worker, at most one worker
\* is alive at any moment, and none is alive outside timeProcessing (each
\* is joined before timeProcessing returns).
OneWorkerAtATime ==
    /\ [](/\ Cardinality({w \in Workers : Alive(w)}) <= 1
          /\ gpc \in {"loop", "won", "exited", "tp_unlock", "tp_create"} =>
                \A w \in Workers : ~Alive(w)
          /\ \A w \in Workers : wpc[w] # "unborn" <=> w <= requests)
    /\ [][/\ requests' # requests =>
                (gpc = "tp_create" /\ userInputRoom = "time" /\ requests' = requests + 1)
          /\ (gpc = "tp_create" /\ gpc' = "tp_join") => requests' = requests + 1
          /\ (gpc # "loop" /\ gpc' = "loop") =>
                (requests \in Workers /\ wpc[requests] = "exited")]_vars

\* the second worker is running after the first has ended
WitnessOneWorkerAtATime ==
    /\ requests = 2
    /\ wpc[1] = "exited"
    /\ wpc[2] = "w_write"

\* C9: what readTimeFile prints is exactly the line the worker of the same
\* request wrote, and the file holds that line alone (overwritten, not
\* appended).
DisplayedIsWritten ==
    gpc = "tp_close" =>
        /\ timeString[requests] # <<>>
        /\ lineRead = timeString[requests]
        /\ timeFile = timeString[requests]

\* the second request has printed a line that differs from the first one
WitnessDisplayedIsWritten ==
    /\ gpc = "tp_close"
    /\ requests = 2
    /\ timeString[1] # timeString[2]
    /\ lineRead = timeString[2]

\* the command just read names a connection of the room the player is in
IsMove == gpc = "loop" /\ gpc' # "tp_unlock" /\ ConnectionMatches(userInputRoom')

\* C10: on MOVE the destination's name is appended to the visited path,
\* the step count grows by exactly one and the destination becomes the
\* current room.
MoveAppendsAndAdvances ==
    [][IsMove =>
          /\ visitedRooms' = Append(visitedRooms, userInputRoom')
          /\ stepCount' = stepCount + 1
          /\ roomArr[currentRoom'].roomName = userInputRoom'
          /\ ConnectionMatches(roomArr[currentRoom'].roomName)]_vars

\* three moves made, the last one to a room not visited before
WitnessMoveAppendsAndAdvances ==
    /\ stepCount = 3
    /\ Len(visitedRooms) = 3
    /\ visitedRooms[3] = roomArr[currentRoom].roomName
    /\ visitedRooms[1] # visitedRooms[3]
    /\ visitedRooms[1] # visitedRooms[2]

\* the command just read is neither a connection of the current room nor
\* the keyword
IsInvalid ==
    /\ gpc = "loop"
    /\ userInputRoom' \in InputLines
    /\ ~ConnectionMatches(userInputRoom')
    /\ userInputRoom' # "time"

\* C11: on INVALID input the run loop prints the apology message, leaves
\* the current room, the visited path and the step count unchanged and
\* awaits the next command in the same room, so that a valid move from
\* that room can follow.
InvalidInputKeepsState ==
    [][IsInvalid =>
          /\ printed'.msg = Apology
          /\ currentRoom' = currentRoom
          /\ visitedRooms' = visitedRooms
          /\ stepCount' = stepCount
          /\ gpc' = "loop"]_vars

\* the main thread is in the run loop or in timeProcessing called from it
InRunLoop == gpc \in {"loop", "tp_unlock", "tp_create", "tp_join", "tp_lock",
                      "tp_open", "tp_read", "tp_close"}

\* C12: the run loop ends exactly when a successful move lands on the END
\* room: while the current room is not END every command (move, time
\* request, invalid input) leads back to awaiting a command, and once END
\* is reached the win summary is printed and no further command is read.
LoopEndsExactlyAtEnd ==
    /\ [](InRunLoop => roomArr[currentRoom].roomType # "END_ROOM")
    /\ [](gpc = "won" =>
            /\ roomArr[currentRoom].roomType = "END_ROOM"
            /\ printed.msg = Congratulations)
    /\ [][gpc = "loop" =>
            /\ gpc' \in {"loop", "tp_unlock", "won"}
            /\ gpc' = "tp_unlock" <=> (userInputRoom' = "time" /\ ~IsMove)
            /\ gpc' = "won" <=>
                  (IsMove /\ roomArr[currentRoom'].roomType = "END_ROOM")]_vars
    /\ [][gpc = "tp_close" => gpc' = "loop"]_vars
    /\ [][(gpc = "won" \/ gpc = "exited") =>
            (gpc' = "exited" /\ userInputRoom' = userInputRoom)]_vars

\* C13: the path printed at WIN is the visited path, which grows only by
\* successful moves, each appending its destination, and ends with the END
\* room; the printed step count is the length of that path; in every
\* reachable state the step count equals the length of the visited path.
PrintedPathIsMoves ==
    /\ [](stepCount = Len(visitedRooms))
    /\ [](gpc = "won" =>
            /\ printed.path = visitedRooms
            /\ printed.steps = Len(printed.path)
            /\ printed.steps > 0
            /\ printed.path[printed.steps] = roomArr[currentRoom].roomName)
    /\ [][visitedRooms' # visitedRooms =>
            /\ IsMove
            /\ visitedRooms' = Append(visitedRooms, roomArr[currentRoom'].roomName)]_vars

\* the win summary of a run of three moves with a time request and an
\* invalid command on the way
WitnessPrintedPathIsMoves ==
    /\ gpc = "won"
    /\ printed.steps = 3
    /\ printed.path[1] # printed.path[3]
    /\ requests >= 1

\* C14: a time request (the command "time" and the whole of
\* timeProcessing) leaves the current room, the visited path and the step
\* count unchanged; the visited path never contains "time".
TimeRequestFrame ==
    /\ [][((gpc = "loop" /\ userInputRoom' = "time") \/ (InRunLoop /\ gpc # "loop")) =>
            /\ currentRoom' = currentRoom
            /\ visitedRooms' = visitedRooms
            /\ stepCount' = stepCount]_vars
    /\ [](\A i \in 1..Len(visitedRooms) : visitedRooms[i] # "time")

\* a time request made after a move has been served and the player is
\* asked for the next command
WitnessTimeRequestFrame ==
    /\ gpc = "loop"
    /\ userInputRoom = "time"
    /\ requests >= 1
    /\ lineRead # <<>>
    /\ stepCount >= 1

(***************************************************************************)
(* Properties of the room files (SpecFile)                                 *)
(***************************************************************************)
\* the i-th smallest column of row `file` that holds a connection
NthConnection(g, file, i) ==
    CHOOSE c \in Rooms :
        /\ g[file][c] # Unset
        /\ Cardinality({d \in Rooms : d <= c /\ g[file][d] # Unset}) = i

\* every line of the text, with its terminating NUL, fits a buffer of
\* `size` bytes
RECURSIVE LinesFit(_, _)
LinesFit(text, size) ==
    IF text = "" THEN TRUE
    ELSE LET line == fgetsText(text, ReadBufSize)
         IN /\ Len(line) + 1 <= size
            /\ LinesFit(SubSeq(text, Len(line) + 1, Len(text)), size)

\* C15: what readFile parses from the lines setupRoomFiles wrote for a
\* room record is the record's name, its connections in the same order and
\* its role; every line written fits the 25-byte line buffer and every
\* string parsed fits the memory readFile allocates for it.
RoundTrip ==
    fpc = "parsed" =>
        /\ roomObj.roomName = selectedRooms[fileNum + 1]
        /\ roomObj.roomType = RoomTypeString(roomTypes[fileNum])
        /\ Len(roomObj.roomConnections) = RoomCount(roomGraph, fileNum)
        /\ \A i \in 1..Len(roomObj.roomConnections) :
              roomObj.roomConnections[i] =
                  selectedRooms[roomGraph[fileNum][NthConnection(roomGraph, fileNum, i)] + 1]
        /\ LinesFit(fileText, FileOutputSize)
        /\ Len(roomObj.roomName) + 1 <= NameBufSize
        /\ Len(roomObj.roomType) + 1 <= NameBufSize
        /\ \A i \in 1..Len(roomObj.roomConnections) :
              Len(roomObj.roomConnections[i]) + 1 <= ConnBufSize

\* the file of the START room "Basement" with six connections was parsed
WitnessRoundTrip ==
    /\ fpc = "parsed"
    /\ roomObj.roomName = "Basement"
    /\ roomObj.roomType = "START_ROOM"
    /\ Len(roomObj.roomConnections) = 6

(***************************************************************************)
(* Properties of the connection lines of the generated graph (SpecBuild)   *)
(***************************************************************************)
\* the connection lines numbered i..k that list the connections of room
\* `file` by ascending room index
RECURSIVE IndexOrderLines(_, _, _, _)
IndexOrderLines(g, file, i, k) ==
    IF i > k THEN ""
    ELSE ConnectionLine(i, RoomName(NthConnection(g, file, i)))
             \o IndexOrderLines(g, file, i + 1, k)

\* C16 as stated: the connection lines of a room file are in the order in
\* which addRandomConnection generated the room's connections, numbered
\* from 1: a newly generated connection adds the last line of both files.
ConnectionsInGenerationOrder ==
    [][\A a \in Rooms :
          roomGraph'[a] # roomGraph[a] =>
             \E b \in Rooms :
                ConnectionLines(roomGraph', RoomNames, a, 0, 0) =
                    ConnectionLines(roomGraph, RoomNames, a, 0, 0)
                        \o ConnectionLine(RoomCount(roomGraph', a), RoomName(b))]_vars

\* C16 as amended: the connection lines of a room file list the room's
\* connections by ascending room index (the column order of the room's row
\* of the graph), numbered sequentially from 1.
ConnectionsInIndexOrder ==
    \A r \in Rooms :
        ConnectionLines(roomGraph, RoomNames, r, 0, 0) =
            IndexOrderLines(roomGraph, r, 1, RoomCount(roomGraph, r))

\* a finished graph in which room 2 has four or more connections
WitnessConnectionsInIndexOrder ==
    /\ bpc = "done"
    /\ RoomCount(roomGraph, 2) >= 4

(***************************************************************************)
(* Properties of mostRecentRooms (SpecDir)                                 *)
(***************************************************************************)
\* the name starts with the fixed prefix
CarriesPrefix(name) ==
    Len(name) >= Len(dirPrefix) /\ SubSeq(name, 1, Len(dirPrefix)) = dirPrefix

\* mostRecentRooms has scanned the whole directory and returned
ScanDone == mpc = "done" /\ scanned = Len(dirEntries)

\* C17: when the scan is over the name returned is that of an entry
\* carrying the prefix whose modification time is the maximum among the
\* entries carrying the prefix, and it is empty when no entry carries it.
ReturnsLatestPrefixed ==
    ScanDone =>
        LET cands == {i \in 1..Len(dirEntries) : CarriesPrefix(dirEntries[i].d_name)}
        IN IF cands = {} THEN dirName = ""
           ELSE \E i \in cands :
                   /\ dirName = dirEntries[i].d_name
                   /\ \A j \in cands : dirEntries[j].st_mtime <= dirEntries[i].st_mtime

\* the entries mostRecentRooms considers: their name holds the prefix string
Considered == {i \in 1..Len(dirEntries) : strstr(dirEntries[i].d_name, dirPrefix)}

\* the considered entries that carry the latest modification time
Latest ==
    {i \in Considered :
        \A j \in Considered : dirEntries[j].st_mtime <= dirEntries[i].st_mtime}

\* C18 as stated: when two or more candidates share the latest
\* modification time, the one observed last during the scan is returned.
TieReturnsLastObserved ==
    (ScanDone /\ Cardinality(Latest) >= 2) =>
        \E i \in Latest : dirName = dirEntries[i].d_name /\ \A j \in Latest : j <= i

\* C18 as amended: when two or more of the entries considered share the
\* latest modification time, the one observed first during the scan is
\* returned; during the scan an entry never replaces an earlier one of the
\* same modification time.
TieReturnsFirstObserved ==
    /\ [](ScanDone /\ Cardinality(Latest) >= 2 =>
            \E i \in Latest : dirName = dirEntries[i].d_name /\ \A j \in Latest : i <= j)
    /\ [][(mpc = "scan" /\ scanned' = scanned + 1
            /\ dirEntries[scanned'].st_mtime = newestModified) =>
                dirName' = dirName]_vars

\* two directories of the same, latest, time were scanned after an older
\* one and the second entry of the scan was returned
WitnessTieReturnsFirstObserved ==
    /\ ScanDone
    /\ Len(dirEntries) = 3
    /\ Latest = {2, 3}
    /\ dirEntries[1].st_mtime < dirEntries[2].st_mtime
    /\ 1 \in Considered
    /\ dirName = dirEntries[2].d_name

(***************************************************************************)
(* Properties of selectRooms (SpecSelect)                                  *)
(***************************************************************************)
\* C19: the slots selectRooms has filled hold pairwise distinct names of
\* the pool of 10, and when it returns all 7 slots are filled.
SevenDistinctPoolNames ==
    /\ \A i \in 1..selIdx :
          /\ \E k \in 1..PoolSize : selectedRooms[i] = PoolNames[k]
          /\ \A j \in 1..selIdx : i # j => selectedRooms[i] # selectedRooms[j]
    /\ selpc = "done" =>
          /\ selIdx = NumRooms
          /\ Cardinality({selectedRooms[i] : i \in 1..NumRooms}) = NumRooms

\* selectRooms has returned a selection that starts with the last name of
\* the pool and leaves out the first one
WitnessSevenDistinctPoolNames ==
    /\ selpc = "done"
    /\ selectedRooms[1] = "Attic"
    /\ selectedRooms[7] = "Stairs"
    /\ \A i \in 1..NumRooms : selectedRooms[i] # "Dungeon"

(***************************************************************************)
(* addRandomConnection always finds its two rooms (SpecBuild)              *)
(***************************************************************************)
\* C20: addRandomConnection never gets stuck: in every reachable graph
\* that is not yet full some room A has fewer than 6 connections, and for
\* every such A some room B has fewer than 6 connections, differs from A
\* and is not yet connected to A; a room with 6 connections is never an
\* endpoint of a new connection.
NeverStuck ==
    /\ [](bpc # "stuck")
    /\ []((bpc = "gen" /\ isGraphFull(roomGraph) = 0) =>
            /\ \E roomA \in Rooms : RoomCount(roomGraph, roomA) < MaxConnections
            /\ \A roomA \in Rooms :
                  RoomCount(roomGraph, roomA) < MaxConnections =>
                     \E roomB \in Rooms :
                        /\ RoomCount(roomGraph, roomB) < MaxConnections
                        /\ roomB # roomA
                        /\ ~Connected(roomGraph, roomA, roomB))
    /\ [][\A r \in Rooms :
            roomGraph'[r] # roomGraph[r] => RoomCount(roomGraph, r) < MaxConnections]_vars

\* generation goes on from a graph in which one room has 6 connections,
\* another has 5 and a third has fewer than 3
WitnessNeverStuck ==
    /\ bpc = "gen"
    /\ isGraphFull(roomGraph) = 0
    /\ \E r \in Rooms : RoomCount(roomGraph, r) = MaxConnections
    /\ \E r \in Rooms : RoomCount(roomGraph, r) = MaxConnections - 1
(***************************************************************************)
(* C21: every time request completes. Under fair scheduling, once          *)
(* timeProcessing has released the mutex and created the n-th worker, the  *)
(* run loop is eventually awaiting a command again with that worker        *)
(* finished, the mutex back with the main thread and the line the worker   *)
(* wrote read back - unless exit(1) or a signal has ended the process.     *)
(***************************************************************************)
\* exit(1) was called or the process was killed
ProcessEnded == gpc = "aborted" \/ gpc = "crashed"

RequestPending(n) == gpc = "tp_join" /\ requests = n

RequestCompleted(n) ==
    /\ gpc = "loop"
    /\ requests = n
    /\ wpc[n] = "exited"
    /\ lock = MainThread
    /\ handles = {}
    /\ timeFile = timeString[n]
    /\ lineRead = fgets(timeFile, LineBufSize)

TimeRequestCompletes ==
    \A n \in Workers : RequestPending(n) ~> (RequestCompleted(n) \/ ProcessEnded)

\* the last request the bound allows has completed
WitnessTimeRequestCompletes == RequestCompleted(MaxRequests)

(***************************************************************************)
(* C22: the order of the steps of a time request. As stated: the consumer  *)
(* re-acquires the mutex and then waits for the worker in the join, so     *)
(* whenever the join of the current request has returned the consumer      *)
(* holds the mutex.                                                        *)
(***************************************************************************)
\* the main thread is inside timeProcessing, past pthread_join
JoinDone == gpc \in {"tp_lock", "tp_open", "tp_read", "tp_close"}

\* worker w is between its pthread_mutex_lock and its pthread_mutex_unlock
InCriticalSection(w) == wpc[w] \in {"w_open", "w_time", "w_write", "w_close", "w_unlock"}

ReacquireBeforeJoin == JoinDone => lock = MainThread

(***************************************************************************)
(* C22, as the code orders the steps: the consumer holds the mutex while   *)
(* it awaits a command; it has released the mutex when it creates the      *)
(* worker; a worker is in its critical section only with the mutex and     *)
(* while the consumer waits in the join; the consumer re-acquires the      *)
(* mutex only after the join has returned, with the worker finished, the   *)
(* file holding exactly the worker's line and the mutex released; and it   *)
(* reads the file holding the mutex.                                       *)
(***************************************************************************)
JoinBeforeReacquire ==
    /\ gpc \in {"loop", "tp_unlock"} => lock = MainThread
    /\ gpc = "tp_create" => lock = Unlocked
    /\ \A w \in Workers :
          InCriticalSection(w) =>
              /\ lock = w
              /\ w = requests
              /\ gpc = "tp_join" \/ ProcessEnded
    /\ gpc = "tp_lock" =>
          /\ wpc[requests] = "exited"
          /\ lock = Unlocked
          /\ timeFile = timeString[requests]
    /\ gpc \in {"tp_open", "tp_read", "tp_close"} =>
          /\ wpc[requests] = "exited"
          /\ lock = MainThread
          /\ timeFile = timeString[requests]

\* the join of the second request has returned and the consumer is about
\* to take the mutex the worker released
WitnessJoinBeforeReacquire ==
    /\ gpc = "tp_lock"
    /\ requests = 2
    /\ wpc[2] = "exited"
    /\ lock = Unlocked
    /\ Len(timeFile) = TimeStringLen

(***************************************************************************)
(* C23: the location and its connections are displayed before the prompt   *)
(* in every iteration of the run loop except the one that follows a time   *)
(* request, which shows the prompt only. LastWasTimeRequest tells the two  *)
(* kinds of iteration apart: it is false when the loop starts, every       *)
(* iteration that is a time request makes it true, it stays true until     *)
(* timeProcessing has returned, and every iteration that is an invalid     *)
(* input or a move makes it false. An iteration that starts with it true   *)
(* displays nothing, any other iteration displays the room it starts in.   *)
(***************************************************************************)
LastWasTimeRequest == userInputRoom = "time"

InTimeProcessing ==
    gpc \in {"tp_unlock", "tp_create", "tp_join", "tp_lock", "tp_open", "tp_read", "tp_close"}

DisplayExceptAfterTime ==
    /\ ~LastWasTimeRequest
    /\ [][/\ (gpc = "loop" /\ gpc' = "tp_unlock") => LastWasTimeRequest'
          /\ (InTimeProcessing /\ gpc' = "loop") => LastWasTimeRequest'
          /\ (gpc = "loop" /\ gpc' \in {"loop", "won"}) => ~LastWasTimeRequest'
          /\ gpc = "loop" =>
                display' = IF LastWasTimeRequest
                           THEN NoDisplay
                           ELSE [location |-> roomArr[currentRoom].roomName,
                                 connections |-> roomArr[currentRoom].roomConnections]]_vars

\* the iteration after a time request showed the prompt only and read an
\* invalid input
WitnessDisplayExceptAfterTime ==
    /\ gpc = "loop"
    /\ requests > 0
    /\ display = NoDisplay
    /\ printed.msg = Apology

FailedOpenIsSkipped ==
    [][(spc = "open" /\ spc' # "type") =>
           /\ spc' = NextFile
           /\ fileNum' = fileNum + 1
           /\ fileType' = fileType]_vars

(***************************************************************************)
(* C26: the visited path is a walk in the loaded graph that begins at      *)
(* START. Its first element is a connection of the START room, each later  *)
(* element is a connection of the room named by the element before it,     *)
(* and whenever the path is non-empty its last element is the name of the  *)
(* current room (with an empty path the current room is START).            *)
(***************************************************************************)
\* name is one of the connections listed for the room called roomName
IsConnectionOf(name, roomName) ==
    \E r \in Rooms :
        /\ roomArr[r].roomName = roomName
        /\ \E i \in 1..Len(roomArr[r].roomConnections) :
               roomArr[r].roomConnections[i] = name

PathIsWalkFromStart ==
    gpc # "idle" =>
        LET start == FindStartRoom(roomArr)
            n == Len(visitedRooms)
        IN /\ n = 0 => currentRoom = start
           /\ n > 0 => IsConnectionOf(visitedRooms[1], roomArr[start].roomName)
           /\ \A i \in 2..n : IsConnectionOf(visitedRooms[i], visitedRooms[i - 1])
           /\ n > 0 => visitedRooms[n] = roomArr[currentRoom].roomName

\* a walk of three moves that comes back to the room it visited first
WitnessPathIsWalkFromStart ==
    /\ gpc = "loop"
    /\ Len(visitedRooms) = 3
    /\ visitedRooms[3] = visitedRooms[1]
    /\ visitedRooms[2] # roomArr[FindStartRoom(roomArr)].roomName

(***************************************************************************)
(* C27: the mutex is unlocked when it is destroyed. In the step in which   *)
(* runGameDriver, its loop ended, calls pthread_mutex_destroy, no thread   *)
(* holds the mutex.                                                        *)
(***************************************************************************)
DestroysUnlockedMutex ==
    [][(gpc = "won" /\ gpc' = "exited") => lock = Unlocked]_vars

====
